---- MODULE Spec2Model ----
(***************************************************************************)
(* Model of src/utils/processing.py: the cost / horse-power / bounding-box  *)
(* field normalizers and the decoding-confidence estimator.                *)
(*                                                                         *)
(* Python values are tagged records [t |-> <type>, ...].  Text is a        *)
(* sequence of one-character strings.  Probabilities are fixed-point       *)
(* integers in units of 1/ProbUnit; a confidence is an integer in units of  *)
(* 1/RoundUnit (four decimals).                                            *)
(***************************************************************************)
EXTENDS Integers, Sequences, FiniteSets, TLC

VARIABLES
    scores,      \* calculate_confidence: the score sequence (argument)
    conf,        \* calculate_confidence: result of the latest call
    phase,       \* calculate_confidence: 0 fresh, 1 called, 2 permuted after a call, 3 called again
    raw_cost,    \* clean_cost: argument
    cost,        \* clean_cost: outcome
    val,         \* sanity_check_hp: argument
    hp,          \* sanity_check_hp: outcome
    data,        \* smart_extract_hp: argument (a field record)
    extracted,   \* smart_extract_hp: outcome
    field_data,  \* validate_bbox: argument of the sequential call
    heap,        \* the mapping objects (dicts), by reference
    heap0,       \* the heap as the caller built it, before any call
    ret,         \* validate_bbox: outcome of the sequential call
    arg,         \* concurrent validate_bbox: each caller's argument (a reference)
    pc,          \* concurrent validate_bbox: each caller's position
    local,       \* concurrent validate_bbox: each caller's computed value of line 92
    rets,        \* concurrent validate_bbox: each caller's returned value and the mapping it then sees
    writes       \* concurrent validate_bbox: the references each caller has stored into

vars == <<scores, conf, phase, raw_cost, cost, val, hp, data, extracted,
          field_data, heap, heap0, ret, arg, pc, local, rets, writes>>

\* What each function's calls leave alone: the state of the other functions.
confFrame == <<raw_cost, cost, val, hp, data, extracted, field_data, ret, heap, heap0, arg, pc, local, rets, writes>>
costFrame == <<scores, conf, phase, val, hp, data, extracted, field_data, ret, heap, heap0, arg, pc, local, rets, writes>>
checkFrame == <<scores, conf, phase, raw_cost, cost, data, extracted, field_data, ret, heap, heap0, arg, pc, local, rets, writes>>
extractFrame == <<scores, conf, phase, raw_cost, cost, val, hp, field_data, ret, heap, heap0, arg, pc, local, rets, writes>>
bboxFrame == <<scores, conf, phase, raw_cost, cost, val, hp, data, extracted, arg, pc, local, rets, writes>>
raceFrame == <<scores, conf, phase, raw_cost, cost, val, hp, data, extracted, field_data, ret>>

\* A function not yet called has outcome NotCalled.
NotCalled == [t |-> "notcalled"]
None == [t |-> "none"]
Raised == [t |-> "raised"]
IntVal(n) == [t |-> "int", v |-> n]

Max(a, b) == IF a >= b THEN a ELSE b
Min(a, b) == IF a <= b THEN a ELSE b

RECURSIVE SumSeq(_)
SumSeq(s) == IF Len(s) = 0 THEN 0 ELSE Head(s) + SumSeq(Tail(s))

-----------------------------------------------------------------------------
(* calculate_confidence                                                     *)

\* Bound: the longest score sequence.  8 is the shortest length whose
\* cutoff exceeds 1.
MaxSteps == 8

\* round(avg_score, 4): results are multiples of 1/10000.
RoundUnit == 10000
\* The bottom share averaged, in percent (0.25).
BottomPercent == 25

\* Probabilities carry two more decimal digits than the rounded result.
ProbUnit == RoundUnit * 100

\* The score steps the decoder may hand over: logit vectors over a
\* three-token vocabulary, each logit an integer multiple of ln 2, so that
\* exp(logit) = 2^logit exactly.
StepSet == { <<0, 0, 0>>, <<2, 0, 0>>, <<0, 0, 9>> }

\* Quotient num/den rounded to the nearest integer, ties to even
\* (num >= 0, den > 0).
RoundHalfEven(num, den) ==
    LET q == num \div den
        r == num % den
    IN  IF 2 * r > den THEN q + 1
        ELSE IF 2 * r < den THEN q
        ELSE IF q % 2 = 0 THEN q ELSE q + 1

MaxOf(step) == CHOOSE m \in {step[i] : i \in 1..Len(step)} :
                   \A i \in 1..Len(step) : step[i] <= m

\* softmax over the vocabulary, then the maximum: exp(max - max) over the
\* sum of exp(l - max), computed to the precision ProbUnit.  The common
\* factor 2^max is kept in numerator and denominator to stay in integers.
MaxSoftmaxProb(step) ==
    LET m == MaxOf(step)
        den == SumSeq([i \in 1..Len(step) |-> 2 ^ step[i]])
    IN  RoundHalfEven((2 ^ m) * ProbUnit, den)

\* list.sort(): ascending, by insertion.
RECURSIVE InsertSorted(_, _)
InsertSorted(x, s) ==
    IF Len(s) = 0 THEN <<x>>
    ELSE IF x <= Head(s) THEN <<x>> \o s
    ELSE <<Head(s)>> \o InsertSorted(x, Tail(s))

RECURSIVE SortAscending(_)
SortAscending(s) ==
    IF Len(s) = 0 THEN <<>> ELSE InsertSorted(Head(s), SortAscending(Tail(s)))

\* A faulty Cutoff: the share is rounded up instead of down.
CutoffCeil(n) == Max(1, (n * BottomPercent + 99) \div 100)

\* max(1, int(len(probs) * 0.25))
Cutoff(n) == Max(1, (n * BottomPercent) \div 100)

\* A faulty SortedProbs: the sort is left out.
UnsortedProbs(probs) == probs

\* probs.sort()
SortedProbs(probs) == SortAscending(probs)

\* A faulty RoundedMean: the sum is not divided by the number of values.
RoundedSum(xs) == RoundHalfEven(SumSeq(xs), ProbUnit \div RoundUnit)

\* round(np.mean(hardest_tokens), 4), in units of 1/RoundUnit.
RoundedMean(xs) == RoundHalfEven(SumSeq(xs), Len(xs) * (ProbUnit \div RoundUnit))

Probs(s) == [i \in 1..Len(s) |-> MaxSoftmaxProb(s[i])]

calculate_confidence(s) ==
    IF Len(s) = 0 THEN 0
    ELSE LET probs == Probs(s)
         IN  IF Len(probs) = 0 THEN 0
             ELSE LET sorted == SortedProbs(probs)
                      cutoff == Cutoff(Len(sorted))
                      hardest_tokens == SubSeq(sorted, 1, Min(cutoff, Len(sorted)))
                  IN  RoundedMean(hardest_tokens)

RECURSIVE SeqsUpTo(_, _)
SeqsUpTo(S, n) ==
    IF n = 0 THEN {<<>>}
    ELSE LET shorter == SeqsUpTo(S, n - 1)
         IN  shorter \cup {Append(s, x) : s \in {t \in shorter : Len(t) = n - 1}, x \in S}

ConfIdle == scores = <<>> /\ conf = NotCalled /\ phase = 0

InitConf == /\ scores \in SeqsUpTo(StepSet, MaxSteps)
            /\ conf = NotCalled
            /\ phase = 0

\* The caller invokes calculate_confidence(scores).
CallCalculateConfidence ==
    /\ phase \in {0, 1, 2}
    /\ conf' = IntVal(calculate_confidence(scores))
    /\ phase' = IF phase = 2 THEN 3 ELSE 1
    /\ UNCHANGED scores
    /\ UNCHANGED confFrame

\* The caller reorders the steps of a sequence it has already scored:
\* two adjacent, different steps change places.
PermuteSteps ==
    /\ phase \in {1, 2}
    /\ \E i \in 1..(Len(scores) - 1) :
          /\ scores[i] # scores[i + 1]
          /\ scores' = [scores EXCEPT ![i] = scores[i + 1], ![i + 1] = scores[i]]
    /\ phase' = 2
    /\ UNCHANGED conf
    /\ UNCHANGED confFrame

-----------------------------------------------------------------------------------------------------------------------------------------------------
(* Claims about calculate_confidence (checked under SpecConf)               *)

\* conf holds the result of a call on the sequence now in scores.
Scored == phase \in {1, 3}

RECURSIVE SumOver(_, _)
SumOver(f, S) ==
    IF S = {} THEN 0 ELSE LET i == CHOOSE i \in S : TRUE IN f[i] + SumOver(f, S \ {i})

\* The sum of the k smallest values of ps, stated through a threshold t:
\* everything below t is taken, and copies of t fill the remaining places.
SumOfSmallest(ps, k) ==
    LET t == CHOOSE t \in {ps[i] : i \in DOMAIN ps} :
                 /\ Cardinality({i \in DOMAIN ps : ps[i] < t}) < k
                 /\ k <= Cardinality({i \in DOMAIN ps : ps[i] <= t})
        below == {i \in DOMAIN ps : ps[i] < t}
    IN  SumOver(ps, below) + (k - Cardinality(below)) * t

\* r is num/den rounded to the nearest integer (ties to the even one).
IsRounding(r, num, den) ==
    LET diff == IF r * den >= num THEN r * den - num ELSE num - r * den
    IN  2 * diff < den \/ (2 * diff = den /\ r % 2 = 0)

SmallestProb(ps) == CHOOSE m \in {ps[i] : i \in DOMAIN ps} : \A i \in DOMAIN ps : m <= ps[i]
LargestProb(ps) == CHOOSE m \in {ps[i] : i \in DOMAIN ps} : \A i \in DOMAIN ps : m >= ps[i]

\* C1: calculate_confidence is defined for every score sequence: 0.0 for
\* the empty one; for n >= 1 steps the mean, rounded to 4 decimals, of the
\* cutoff = max(1, floor(n * 0.25)) smallest per-step maximum
\* probabilities, with 1 <= cutoff <= n; for n = 1 that step's (rounded)
\* maximum probability.
C1_ConfidenceDefined ==
    Scored =>
        LET n == Len(scores)
            ps == Probs(scores)
            k == IF n \div 4 >= 1 THEN n \div 4 ELSE 1
        IN  /\ conf.t = "int"
            /\ n = 0 => conf.v = 0
            /\ n >= 1 => /\ 1 <= k /\ k <= n
                         /\ IsRounding(conf.v, SumOfSmallest(ps, k), k * (ProbUnit \div RoundUnit))
            /\ n = 1 => IsRounding(conf.v, ps[1], ProbUnit \div RoundUnit)

\* Eight steps, so two are averaged: one step at 1/3, the rest at 2/3, and
\* the result is 0.5.
C1_Witness ==
    /\ phase = 1
    /\ Len(scores) = 8
    /\ Cardinality({i \in 1..8 : scores[i] = <<0, 0, 0>>}) = 1
    /\ Cardinality({i \in 1..8 : scores[i] = <<2, 0, 0>>}) = 7
    /\ conf = IntVal(5000)

\* C2: the result is the same on every reordering of the steps: a call made
\* after the steps were permuted returns what the call before returned.
C2_PermutationInvariant ==
    [][(conf.t = "int" /\ conf'.t = "int") => conf' = conf]_vars

\* A sequence of differing steps was scored, reordered and scored again.
C2_Witness ==
    /\ phase = 3
    /\ Len(scores) = 8
    /\ Cardinality({scores[i] : i \in 1..8}) = 3
    /\ scores[1] = <<0, 0, 9>>
    /\ scores[8] = <<0, 0, 0>>

\* C3 as claimed: the result lies in [0,1], never below the smallest and
\* never above the largest per-step maximum probability.
C3_WithinMinMax ==
    Scored =>
        /\ 0 <= conf.v /\ conf.v <= RoundUnit
        /\ Len(scores) >= 1 =>
              /\ SmallestProb(Probs(scores)) <= conf.v * (ProbUnit \div RoundUnit)
              /\ conf.v * (ProbUnit \div RoundUnit) <= LargestProb(Probs(scores))

\* C3 as amended: the result lies in [0,1], and it is never below the
\* smallest and never above the largest per-step maximum probability
\* once these are rounded to 4 decimals as the result is.
C3_WithinRoundedMinMax ==
    Scored =>
        /\ 0 <= conf.v /\ conf.v <= RoundUnit
        /\ Len(scores) >= 1 =>
              LET u == ProbUnit \div RoundUnit
                  lo == SmallestProb(Probs(scores))
                  hi == LargestProb(Probs(scores))
              IN  /\ \E r \in {lo \div u, lo \div u + 1} : IsRounding(r, lo, u) /\ r <= conf.v
                  /\ \E r \in {hi \div u, hi \div u + 1} : IsRounding(r, hi, u) /\ conf.v <= r

\* Every step at 2/3: the result 0.6667 is above the largest probability.
C3_Witness ==
    /\ phase = 1
    /\ Len(scores) >= 1
    /\ conf.v * (ProbUnit \div RoundUnit) > LargestProb(Probs(scores))

-----
(* Raw field values and Python's conversions                                *)

\* Bound: the longest text drawn for clean_cost and sanity_check_hp.
MaxTextLen == 3

Str(s) == [t |-> "str", v |-> s]
Bool(b) == [t |-> "bool", v |-> b]
\* A finite float is held in tenths: Float(507) is 50.7.
Float(k) == [t |-> "float", kind |-> "finite", tenths |-> k]
NaN == [t |-> "float", kind |-> "nan", tenths |-> 0]
Infinity == [t |-> "float", kind |-> "inf", tenths |-> 0]
List(s) == [t |-> "list", v |-> s]
\* A mapping passed by value (its keys are all that matters here).
Dict(keys) == [t |-> "dict", v |-> keys]
Missing == [t |-> "missing"]

DigitChars == <<"0", "1", "2", "3", "4", "5", "6", "7", "8", "9">>
IsDigit(c) == \E i \in 1..Len(DigitChars) : DigitChars[i] = c
DigitVal(c) == (CHOOSE i \in 1..Len(DigitChars) : DigitChars[i] = c) - 1
IsSpace(c) == c = " "

Alphabet == {"0", "1", "5", " ", "-", "$"}
TextSet == SeqsUpTo(Alphabet, MaxTextLen)

IntSet == {-60, -1, 0, 1, 14, 15, 16, 60, 99, 100, 101}
TenthsSet == {-150, -9, 0, 5, 149, 150, 507, 999, 1000, 1009, 1010}

\* Every shape a raw field value takes.
ValueSet ==
    {None, Bool(TRUE), Bool(FALSE), NaN, Infinity,
     List(<<>>), List(<<60>>), Dict({}), Dict({"hp"})}
    \cup {IntVal(n) : n \in IntSet}
    \cup {Float(k) : k \in TenthsSet}
    \cup {Str(s) : s \in TextSet}

\* Value of a run of digits, most significant first.
RECURSIVE DecimalValue(_)
DecimalValue(ds) ==
    IF Len(ds) = 0 THEN 0
    ELSE DecimalValue(SubSeq(ds, 1, Len(ds) - 1)) * 10 + DigitVal(ds[Len(ds)])

\* str.strip() as int() applies it.
RECURSIVE StripLeft(_)
StripLeft(s) == IF Len(s) > 0 /\ IsSpace(Head(s)) THEN StripLeft(Tail(s)) ELSE s
RECURSIVE StripRight(_)
StripRight(s) ==
    IF Len(s) > 0 /\ IsSpace(s[Len(s)]) THEN StripRight(SubSeq(s, 1, Len(s) - 1)) ELSE s

AllDigits(s) == \A i \in 1..Len(s) : IsDigit(s[i])

\* int(<str>): surrounding whitespace, an optional sign, then digits only
\* (texts here hold no underscore).
IntOfText(s) ==
    LET body == StripRight(StripLeft(s))
        signed == Len(body) > 0 /\ body[1] \in {"-", "+"}
        digits == IF signed THEN Tail(body) ELSE body
    IN  IF Len(digits) = 0 \/ ~AllDigits(digits) THEN Raised
        ELSE IF signed /\ body[1] = "-" THEN IntVal(0 - DecimalValue(digits))
        ELSE IntVal(DecimalValue(digits))

\* int(<finite float>): truncation toward zero.
TruncTenths(k) == IF k >= 0 THEN k \div 10 ELSE 0 - ((0 - k) \div 10)

\* int(x) for any value: the integer, or Raised (TypeError, ValueError,
\* OverflowError).
PyInt(v) ==
    CASE v.t = "int" -> v
      [] v.t = "bool" -> IntVal(IF v.v THEN 1 ELSE 0)
      [] v.t = "float" -> IF v.kind = "finite" THEN IntVal(TruncTenths(v.tenths)) ELSE Raised
      [] v.t = "str" -> IntOfText(v.v)
      [] OTHER -> Raised

\* Python truth value.
Truthy(v) ==
    CASE v.t = "int" -> v.v # 0
      [] v.t = "bool" -> v.v
      [] v.t = "float" -> ~(v.kind = "finite" /\ v.tenths = 0)
      [] v.t = "str" -> Len(v.v) > 0
      [] v.t = "list" -> Len(v.v) > 0
      [] v.t = "dict" -> v.v # {}
      [] OTHER -> FALSE

-----------------------------------------------------------------------------
(* clean_cost                                                               *)

\* isinstance(raw_cost, (int, float)); bool is a subclass of int.
IsIntOrFloat(v) == v.t \in {"int", "float", "bool"}

\* re.sub(r'[^\d]', '', raw_cost)
StripNonDigits(s) == SelectSeq(s, IsDigit)

clean_cost(v) ==
    IF IsIntOrFloat(v) THEN PyInt(v)
    ELSE IF v.t = "str"
         THEN LET clean == StripNonDigits(v.v)
              IN  IF Len(clean) > 0 THEN IntVal(DecimalValue(clean)) ELSE IntVal(0)
    ELSE IntVal(0)

CostIdle == raw_cost = None /\ cost = NotCalled

InitCost == /\ raw_cost \in ValueSet
            /\ cost = NotCalled

CallCleanCost ==
    /\ cost = NotCalled
    /\ cost' = clean_cost(raw_cost)
    /\ UNCHANGED raw_cost
    /\ UNCHANGED costFrame

-----------------------------------------------------------------------------------------------------------------------------------------------------
(* Claims about clean_cost (checked under SpecCost)                         *)

\* C4: clean_cost maps every raw cost value of every shape to a
\* non-negative integer: a number is truncated toward zero, a text becomes
\* the integer its digit characters form (0 if it has none).
C4_NonNegativeInteger ==
    cost.t # "notcalled" =>
        /\ cost.t = "int"
        /\ cost.v >= 0
        /\ raw_cost.t = "int" => cost.v = raw_cost.v
        /\ raw_cost.t = "float" =>
              LET k == raw_cost.tenths
              IN  IF k >= 0 THEN 10 * cost.v <= k /\ k < 10 * cost.v + 10
                  ELSE 10 * cost.v >= k /\ k > 10 * cost.v - 10
        /\ raw_cost.t = "str" =>
              cost.v = DecimalValue(SelectSeq(raw_cost.v, IsDigit))

\* C5: clean_cost returns 0 for every input that is neither a number nor a
\* text (null, list, mapping, boolean), and no error outcome is produced.
C5_OtherTypesGiveZero ==
    (cost.t # "notcalled" /\ raw_cost.t \notin {"int", "float", "str"}) =>
        (cost.t = "int" /\ cost.v = 0)

-----
(* sanity_check_hp                                                          *)

HP_MIN == 15
HP_MAX == 100

\* A faulty InHpRange: the lower end is excluded.
InHpRangeExclusive(n) == HP_MIN < n /\ n <= HP_MAX

\* 15 <= ival <= 100
InHpRange(n) == HP_MIN <= n /\ n <= HP_MAX

\* The try block; any exception is caught and turned into None.
sanity_check_hp(v) ==
    IF ~Truthy(v) THEN None
    ELSE LET ival == PyInt(v)
         IN  IF ival = Raised THEN None
             ELSE IF InHpRange(ival.v) THEN ival ELSE None

CheckIdle == val = None /\ hp = NotCalled

InitCheck == /\ val \in ValueSet
             /\ hp = NotCalled

CallSanityCheckHp ==
    /\ hp = NotCalled
    /\ hp' = sanity_check_hp(val)
    /\ UNCHANGED val
    /\ UNCHANGED checkFrame

-----------------------------------------------------------------------------------------------------------------------------------------------------
(* Claims about sanity_check_hp (checked under SpecCheck)                   *)

\* The decimal digits of n >= 0, most significant first, without leading
\* zeros.
RECURSIVE Render(_)
Render(n) ==
    IF n < 10 THEN <<DigitChars[n + 1]>>
    ELSE Render(n \div 10) \o <<DigitChars[(n % 10) + 1]>>

Repeat(c, k) == [i \in 1..k |-> c]

\* The text s is an integer literal for n >= 0: the digits of n, possibly
\* after leading zeros and a plus sign, possibly inside whitespace.
TextDenotes(s, n) ==
    \E a \in 0..Len(s), sign \in {<<>>, <<"+">>} :
        \E z \in 0..(Len(s) - a - Len(sign)) :
            LET front == Repeat(" ", a) \o sign \o Repeat("0", z) \o Render(n)
            IN  /\ Len(front) <= Len(s)
                /\ s = front \o Repeat(" ", Len(s) - Len(front))

\* The candidate is the integer n: an integer, an integer-valued float, or
\* a text that is an integer literal.
IsInteger(v, n) ==
    CASE v.t = "int" -> v.v = n
      [] v.t = "bool" -> n = (IF v.v THEN 1 ELSE 0)
      [] v.t = "float" -> v.kind = "finite" /\ v.tenths = 10 * n
      [] v.t = "str" -> TextDenotes(v.v, n)
      [] OTHER -> FALSE

\* The candidate converts to the integer n > 0: as IsInteger, and a finite
\* float converts to its integer part.
ConvertsTo(v, n) ==
    CASE v.t = "int" -> v.v = n
      [] v.t = "bool" -> n = (IF v.v THEN 1 ELSE 0)
      [] v.t = "float" -> v.kind = "finite" /\ 10 * n <= v.tenths /\ v.tenths < 10 * n + 10
      [] v.t = "str" -> TextDenotes(v.v, n)
      [] OTHER -> FALSE

\* C6 as claimed: sanity_check_hp returns the value as an integer if and
\* only if the candidate parses as an integer within [15, 100]; every other
\* input (falsy, non-integer, unparseable, out of range) gives absent, and
\* no error outcome is produced.
C6_IntegerInRangeOnly ==
    hp.t # "notcalled" =>
        /\ hp.t \in {"int", "none"}
        /\ \A n \in HP_MIN..HP_MAX : IsInteger(val, n) => hp = IntVal(n)
        /\ (\A n \in HP_MIN..HP_MAX : ~IsInteger(val, n)) => hp.t = "none"

\* C6 as amended: sanity_check_hp returns an integer if and only if the
\* candidate converts to an integer (a float by truncation toward zero)
\* that lies within [15, 100], and then returns that integer; every other
\* input gives absent, and no error outcome is produced.
C6_ConvertedInRangeOnly ==
    hp.t # "notcalled" =>
        /\ hp.t \in {"int", "none"}
        /\ \A n \in HP_MIN..HP_MAX : ConvertsTo(val, n) => hp = IntVal(n)
        /\ (\A n \in HP_MIN..HP_MAX : ~ConvertsTo(val, n)) => hp.t = "none"

\* The float 100.9 converts to 100, the upper end of the range.
C6_Witness ==
    /\ val = Float(1009)
    /\ hp = IntVal(100)

-----
(* smart_extract_hp                                                         *)

\* Bound: the number of fragments a model_name text is assembled from.
MaxFragments == 4

Fragments == { <<"1", "0">>, <<"6", "0">>, <<"7", "5">>, <<"H", "P">>,
               <<"h", ".", "p", ".">>, <<" ">>, <<"x">> }

RECURSIVE Flatten(_)
Flatten(fs) == IF Len(fs) = 0 THEN <<>> ELSE Head(fs) \o Flatten(Tail(fs))

ModelNameSet ==
    {Missing, None, IntVal(60)}
    \cup {Str(Flatten(fs)) : fs \in SeqsUpTo(Fragments, MaxFragments)}

HorsePowerSet ==
    {Missing, None, IntVal(0), IntVal(14), IntVal(60), Float(507),
     Str(<<>>), Str(<<"x">>),
     Str(<<"7", "5", " ", "H", "P", " ", "e">>),
     Str(<<"x", "1", "0", "1", " ", "6", "0">>)}

\* re.IGNORECASE on the letters of the pattern.
Upper(c) == CASE c = "h" -> "H" [] c = "p" -> "P" [] OTHER -> c

\* re.search(r'(\d+)', text): the first, longest run of digits; <<>> when
\* the text holds no digit.
RECURSIVE DigitRunFrom(_, _)
DigitRunFrom(s, i) ==
    IF i <= Len(s) /\ IsDigit(s[i]) THEN <<s[i]>> \o DigitRunFrom(s, i + 1) ELSE <<>>

RECURSIVE SearchDigits(_, _)
SearchDigits(s, i) ==
    IF i > Len(s) THEN <<>>
    ELSE IF IsDigit(s[i]) THEN DigitRunFrom(s, i)
    ELSE SearchDigits(s, i + 1)

\* \s* : the position after the whitespace starting at j.
RECURSIVE SkipSpaces(_, _)
SkipSpaces(s, j) ==
    IF j <= Len(s) /\ IsSpace(s[j]) THEN SkipSpaces(s, j + 1) ELSE j

\* (?:HP|H\.P\.|hp|Hp) at position j: the position after it, 0 for no match.
MarkerEnd(s, j) ==
    IF j + 1 <= Len(s) /\ Upper(s[j]) = "H" /\ Upper(s[j + 1]) = "P" THEN j + 2
    ELSE IF /\ j + 3 <= Len(s)
            /\ Upper(s[j]) = "H" /\ s[j + 1] = "."
            /\ Upper(s[j + 2]) = "P" /\ s[j + 3] = "."
         THEN j + 4
    ELSE 0

\* The whole pattern at position i: the position after the match, 0 for none.
MatchEndAt(s, i) ==
    IF i + 1 <= Len(s) /\ IsDigit(s[i]) /\ IsDigit(s[i + 1])
    THEN MarkerEnd(s, SkipSpaces(s, i + 2))
    ELSE 0

\* re.findall: the captured digit pairs of the non-overlapping matches,
\* scanning from position i.
RECURSIVE FindAll(_, _)
FindAll(s, i) ==
    IF i > Len(s) THEN <<>>
    ELSE LET e == MatchEndAt(s, i)
         IN  IF e > 0 THEN <<SubSeq(s, i, i + 1)>> \o FindAll(s, e)
             ELSE FindAll(s, i + 1)

\* A faulty FirstPassing: the last passing match wins.
RECURSIVE LastPassing(_)
LastPassing(matches) ==
    IF Len(matches) = 0 THEN None
    ELSE LET m == matches[Len(matches)]
         IN  IF Truthy(sanity_check_hp(Str(m))) THEN PyInt(Str(m))
             ELSE LastPassing(SubSeq(matches, 1, Len(matches) - 1))

\* for m in matches: if sanity_check_hp(m): return int(m)
RECURSIVE FirstPassing(_)
FirstPassing(matches) ==
    IF Len(matches) = 0 THEN None
    ELSE IF Truthy(sanity_check_hp(Str(Head(matches)))) THEN PyInt(Str(Head(matches)))
    ELSE FirstPassing(Tail(matches))

\* data.get(key, default)
Get(field, default) == IF field.t = "missing" THEN default ELSE field

smart_extract_hp(d) ==
    LET got == Get(d.horse_power, None)
        run == IF got.t = "str" THEN SearchDigits(got.v, 1) ELSE <<>>
        raw_hp == IF got.t = "str" /\ Len(run) > 0 THEN IntVal(DecimalValue(run)) ELSE got
    IN  IF Truthy(sanity_check_hp(raw_hp)) THEN PyInt(raw_hp)
        ELSE LET model_str == Get(d.model_name, Str(<<>>))
             IN  IF Truthy(model_str) /\ model_str.t = "str"
                 THEN FirstPassing(FindAll(model_str.v, 1))
                 ELSE None

ExtractIdle == data = [horse_power |-> Missing, model_name |-> Missing] /\ extracted = NotCalled

InitExtract == /\ data \in [horse_power : HorsePowerSet, model_name : ModelNameSet]
               /\ extracted = NotCalled

CallSmartExtractHp ==
    /\ extracted = NotCalled
    /\ extracted' = smart_extract_hp(data)
    /\ UNCHANGED data
    /\ UNCHANGED extractFrame

-----------------------------------------------------------------------------------------------------------------------------------------------------
(* Claims about smart_extract_hp (checked under SpecExtract)                *)

HasDigit(s) == \E i \in 1..Len(s) : IsDigit(s[i])

\* The value of the first run of digits of a text that has a digit: the
\* run starts at the first digit and ends before the next non-digit.
FirstRunValue(s) ==
    LET i == CHOOSE i \in 1..Len(s) : IsDigit(s[i]) /\ \A j \in 1..(i - 1) : ~IsDigit(s[j])
        j == CHOOSE j \in i..Len(s) :
                 /\ \A x \in i..j : IsDigit(s[x])
                 /\ j = Len(s) \/ ~IsDigit(s[j + 1])
    IN  DecimalValue(SubSeq(s, i, j))

\* The values with which the horse_power field passes the validator.
DirectGives(v) ==
    IF v.t = "str"
    THEN IF HasDigit(v.v) THEN {FirstRunValue(v.v)} \cap (HP_MIN..HP_MAX) ELSE {}
    ELSE {n \in HP_MIN..HP_MAX : ConvertsTo(v, n)}

MarkerForms == {<<"H", "P">>, <<"H", ".", "P", ".">>}

\* A horsepower unit marker, in any case of its letters, stands at j.
MarkerAt(s, j) ==
    \E m \in MarkerForms :
        /\ j + Len(m) - 1 <= Len(s)
        /\ \A x \in 1..Len(m) : Upper(s[j + x - 1]) = m[x]

\* The positions where two digits are followed, after any whitespace, by a
\* unit marker.
MarkedPositions(s) ==
    {i \in 1..(Len(s) - 1) :
        /\ IsDigit(s[i]) /\ IsDigit(s[i + 1])
        /\ \E k \in 0..Len(s) :
              /\ \A x \in (i + 2)..(i + 1 + k) : x <= Len(s) /\ IsSpace(s[x])
              /\ MarkerAt(s, i + 2 + k)}

TwoDigits(s, i) == 10 * DigitVal(s[i]) + DigitVal(s[i + 1])

\* The first marked two-digit number of a text that passes the validator.
FallbackGives(s) ==
    LET ok == {i \in MarkedPositions(s) : HP_MIN <= TwoDigits(s, i) /\ TwoDigits(s, i) <= HP_MAX}
    IN  IF ok = {} THEN None
        ELSE IntVal(TwoDigits(s, CHOOSE i \in ok : \A j \in ok : i <= j))

\* C7: two strategies in order, first match wins: a horse_power field that
\* passes the validator (for text, its first run of digits) is returned
\* whatever model_name holds; otherwise the first two-digit number followed
\* by a unit marker in model_name that passes the validator; otherwise
\* absent.  Every result that is not absent is an integer in [15, 100].
C7_TwoStrategiesInOrder ==
    extracted.t # "notcalled" =>
        LET field == Get(data.horse_power, None)
            name == data.model_name
        IN  /\ extracted.t \in {"int", "none"}
            /\ \A n \in DirectGives(field) : extracted = IntVal(n)
            /\ DirectGives(field) = {} =>
                  extracted = (IF name.t = "str" THEN FallbackGives(name.v) ELSE None)
            /\ extracted.t = "int" => (HP_MIN <= extracted.v /\ extracted.v <= HP_MAX)

\* The direct field fails (its first run of digits is 101), the first
\* marked number of model_name (10) fails, the second (75) is returned.
C7_Witness ==
    /\ data.horse_power = Str(<<"x", "1", "0", "1", " ", "6", "0">>)
    /\ data.model_name = Str(<<"1", "0", "H", "P", "7", "5", "h", ".", "p", ".">>)
    /\ extracted = IntVal(75)

-----
(* validate_bbox                                                            *)

\* Bound: the longest list drawn as a bounding box candidate.
MaxListLen == 5

\* len(field_data) == 4
BBOX_LEN == 4

ZeroBox == <<0, 0, 0, 0>>

\* A reference to a mapping object of the heap.
Ref(r) == [t |-> "ref", ref |-> r]

\* The default of line 83, a new object in every call.
DefaultBox == [present |-> FALSE, bbox |-> ZeroBox]

\* A mapping with the given optional entries (<<>> for a missing key).
MakeDict(bbox, present, label) ==
    LET keys == (IF bbox # <<>> THEN {"bbox"} ELSE {})
                \cup (IF present # <<>> THEN {"present"} ELSE {})
                \cup (IF label # <<>> THEN {"label"} ELSE {})
    IN  [k \in keys |-> CASE k = "bbox" -> bbox[1]
                          [] k = "present" -> present[1]
                          [] OTHER -> label[1]]

BoxSet == {ZeroBox, <<1, 1, 1, 1>>, <<1, 2, 3>>}

DictSet == {MakeDict(b, p, l) : b \in {<<>>} \cup {<<x>> : x \in BoxSet},
                                p \in {<<>>, <<TRUE>>, <<FALSE>>},
                                l \in {<<>>, <<"wheel">>}}

PlainSet ==
    {None, IntVal(0), IntVal(7), Bool(FALSE), Bool(TRUE), Float(0), Float(15),
     Str(<<>>), Str(<<"x">>)}
    \cup {List(l) : l \in SeqsUpTo({0, 1}, MaxListLen)}

\* d[key] = value
Put(d, key, value) == [k \in DOMAIN d \cup {key} |-> IF k = key THEN value ELSE d[k]]

\* Truth value of an argument that may be a reference to a mapping.
TruthyIn(h, v) == IF v.t = "ref" THEN DOMAIN h[v.ref] # {} ELSE Truthy(v)

\* A faulty WellFormedBox: longer lists pass too.
AtLeastBoxLen(l) == Len(l) >= BBOX_LEN

\* len(field_data) == 4
WellFormedBox(l) == Len(l) = BBOX_LEN

\* A faulty FillBbox: the bbox entry is overwritten.
OverwriteBbox(d) == Put(d, "bbox", ZeroBox)

\* Lines 89-90.
FillBbox(d) == IF "bbox" \notin DOMAIN d THEN Put(d, "bbox", ZeroBox) ELSE d

\* Lines 91-92.
FillPresent(d) ==
    IF "present" \notin DOMAIN d THEN Put(d, "present", d["bbox"] # ZeroBox) ELSE d

\* One whole call: the heap after it and the reference it returns.
validate_bbox(h, fd) ==
    IF ~TruthyIn(h, fd)
    THEN [heap |-> Append(h, DefaultBox), ret |-> Ref(Len(h) + 1)]
    ELSE IF fd.t = "list"
    THEN [heap |-> Append(h, [present |-> TRUE,
                              bbox |-> IF WellFormedBox(fd.v) THEN fd.v ELSE ZeroBox]),
          ret |-> Ref(Len(h) + 1)]
    ELSE IF fd.t = "ref"
    THEN [heap |-> [h EXCEPT ![fd.ref] = FillPresent(FillBbox(h[fd.ref]))],
          ret |-> fd]
    ELSE [heap |-> Append(h, DefaultBox), ret |-> Ref(Len(h) + 1)]

BboxIdle == field_data = None /\ ret = NotCalled
HeapIdle == heap = <<>> /\ heap0 = <<>>

InitBbox ==
    /\ \/ field_data \in PlainSet /\ heap = <<>>
       \/ field_data = Ref(1) /\ heap \in {<<d>> : d \in DictSet}
    /\ heap0 = heap
    /\ ret = NotCalled

CallValidateBbox ==
    /\ ret = NotCalled
    /\ LET out == validate_bbox(heap, field_data)
       IN  heap' = out.heap /\ ret' = out.ret
    /\ UNCHANGED <<field_data, heap0>>
    /\ UNCHANGED bboxFrame

-----------------------------------------------------------------------------------------------------------------------------------------------------
(* Claims about validate_bbox (checked under SpecBbox)                      *)

Called == ret.t # "notcalled"

\* The call returned a mapping object made by the call, holding d.
ReturnsNew(d) == /\ ret.ref = Len(heap0) + 1
                 /\ Len(heap) = Len(heap0) + 1
                 /\ heap[ret.ref] = d
                 /\ \A r \in 1..Len(heap0) : heap[r] = heap0[r]

\* C8 as claimed: a sequence of exactly 4 elements gives {present: true,
\* bbox: that sequence}; a sequence of any other length, length 0 included,
\* gives {present: true, bbox: [0,0,0,0]}; null or falsy input that is no
\* sequence, and input of any other type, gives the default.
C8_SequenceAlwaysPresent ==
    Called =>
        /\ field_data.t = "list" =>
              ReturnsNew([present |-> TRUE,
                          bbox |-> IF Len(field_data.v) = 4 THEN field_data.v ELSE ZeroBox])
        /\ field_data.t \notin {"list", "ref"} =>
              ReturnsNew([present |-> FALSE, bbox |-> ZeroBox])

\* C8 as amended: as claimed, except that the empty sequence, being falsy,
\* gives the default {present: false, bbox: [0,0,0,0]}.
C8_NonEmptySequencePresent ==
    Called =>
        /\ (field_data.t = "list" /\ Len(field_data.v) > 0) =>
              ReturnsNew([present |-> TRUE,
                          bbox |-> IF Len(field_data.v) = 4 THEN field_data.v ELSE ZeroBox])
        /\ (field_data.t = "list" /\ Len(field_data.v) = 0) =>
              ReturnsNew([present |-> FALSE, bbox |-> ZeroBox])
        /\ field_data.t \notin {"list", "ref"} =>
              ReturnsNew([present |-> FALSE, bbox |-> ZeroBox])

\* A list of five elements comes back as present with the zero box.
C8_Witness ==
    /\ Called
    /\ field_data = List(<<1, 0, 1, 0, 1>>)
    /\ heap[ret.ref] = [present |-> TRUE, bbox |-> ZeroBox]

\* The mapping passed in was filled in place and returned.
FilledInPlace ==
    LET r == field_data.ref
        old == heap0[r]
        new == heap[r]
    IN  /\ ret = field_data
        /\ Len(heap) = Len(heap0)
        /\ DOMAIN new = DOMAIN old \cup {"bbox", "present"}
        /\ \A k \in DOMAIN old : new[k] = old[k]
        /\ "bbox" \notin DOMAIN old => new["bbox"] = ZeroBox
        /\ "present" \notin DOMAIN old => new["present"] = (new["bbox"] # ZeroBox)

\* C9 as claimed: on any mapping input validate_bbox mutates and returns
\* that same object: a missing bbox becomes [0,0,0,0], a missing present
\* becomes (bbox is not the all-zero default), every key already there
\* keeps its value, and the returned mapping holds both keys.
C9_AnyMappingFilledInPlace ==
    (Called /\ field_data.t = "ref") => FilledInPlace

\* C9 as amended: the same for any non-empty mapping; an empty mapping is
\* left as it is and a new default mapping {present: false, bbox:
\* [0,0,0,0]} is returned.
C9_NonEmptyMappingFilledInPlace ==
    (Called /\ field_data.t = "ref") =>
        IF DOMAIN heap0[field_data.ref] # {}
        THEN FilledInPlace
        ELSE ReturnsNew([present |-> FALSE, bbox |-> ZeroBox])

\* A mapping holding only a label gets both keys and keeps the label.
C9_Witness ==
    /\ Called
    /\ field_data.t = "ref"
    /\ DOMAIN heap0[1] = {"label"}
    /\ heap[1] = [label |-> "wheel", bbox |-> ZeroBox, present |-> FALSE]

-----
(* validate_bbox called from two call sites at once                         *)

Callers == {1, 2}

RaceIdle ==
    /\ arg = [c \in Callers |-> 0]
    /\ pc = [c \in Callers |-> "idle"]
    /\ local = [c \in Callers |-> FALSE]
    /\ rets = [c \in Callers |-> NotCalled]
    /\ writes = [c \in Callers |-> {}]

\* The caller holds two mapping objects; each call site passes one of them.
InitRace ==
    /\ heap \in {<<d1, d2>> : d1 \in DictSet, d2 \in DictSet}
    /\ heap0 = heap
    /\ arg \in [Callers -> {1, 2}]
    /\ pc = [c \in Callers |-> "L84"]
    /\ local = [c \in Callers |-> FALSE]
    /\ rets = [c \in Callers |-> NotCalled]
    /\ writes = [c \in Callers |-> {}]

\* What a call returns, with the contents the caller finds there.
Returned(r, d) == [t |-> "returned", ref |-> r, seen |-> d]

\* if not field_data: return default
L84(c) ==
    /\ pc[c] = "L84"
    /\ IF DOMAIN heap[arg[c]] = {}
       THEN /\ heap' = Append(heap, DefaultBox)
            /\ rets' = [rets EXCEPT ![c] = Returned(Len(heap) + 1, DefaultBox)]
            /\ pc' = [pc EXCEPT ![c] = "done"]
       ELSE /\ pc' = [pc EXCEPT ![c] = "L89"]
            /\ UNCHANGED <<heap, rets>>
    /\ UNCHANGED raceFrame
    /\ UNCHANGED <<arg, local, writes, heap0>>
    /\ UNCHANGED raceFrame

\* if "bbox" not in field_data:
L89(c) ==
    /\ pc[c] = "L89"
    /\ pc' = [pc EXCEPT ![c] = IF "bbox" \notin DOMAIN heap[arg[c]] THEN "L90" ELSE "L91"]
    /\ UNCHANGED <<heap, heap0, arg, local, rets, writes>>
    /\ UNCHANGED raceFrame

\* field_data["bbox"] = [0, 0, 0, 0]
L90(c) ==
    /\ pc[c] = "L90"
    /\ heap' = [heap EXCEPT ![arg[c]] = Put(@, "bbox", ZeroBox)]
    /\ writes' = [writes EXCEPT ![c] = @ \cup {arg[c]}]
    /\ pc' = [pc EXCEPT ![c] = "L91"]
    /\ UNCHANGED <<heap0, arg, local, rets>>
    /\ UNCHANGED raceFrame

\* if "present" not in field_data:
L91(c) ==
    /\ pc[c] = "L91"
    /\ pc' = [pc EXCEPT ![c] = IF "present" \notin DOMAIN heap[arg[c]] THEN "L92" ELSE "L93"]
    /\ UNCHANGED <<heap, heap0, arg, local, rets, writes>>
    /\ UNCHANGED raceFrame

\* A faulty L92Load: the value is computed without looking at the mapping.
L92LoadBlind(c) ==
    /\ pc[c] = "L92"
    /\ local' = [local EXCEPT ![c] = TRUE]
    /\ pc' = [pc EXCEPT ![c] = "L92s"]
    /\ UNCHANGED <<heap, heap0, arg, rets, writes>>
    /\ UNCHANGED raceFrame

\* (field_data["bbox"] != [0, 0, 0, 0]): the right-hand side is evaluated
L92Load(c) ==
    /\ pc[c] = "L92"
    /\ local' = [local EXCEPT ![c] = heap[arg[c]]["bbox"] # ZeroBox]
    /\ pc' = [pc EXCEPT ![c] = "L92s"]
    /\ UNCHANGED <<heap, heap0, arg, rets, writes>>
    /\ UNCHANGED raceFrame

\* field_data["present"] = ... : the value is stored
L92Store(c) ==
    /\ pc[c] = "L92s"
    /\ heap' = [heap EXCEPT ![arg[c]] = Put(@, "present", local[c])]
    /\ writes' = [writes EXCEPT ![c] = @ \cup {arg[c]}]
    /\ pc' = [pc EXCEPT ![c] = "L93"]
    /\ UNCHANGED <<heap0, arg, local, rets>>
    /\ UNCHANGED raceFrame

\* return field_data
L93(c) ==
    /\ pc[c] = "L93"
    /\ rets' = [rets EXCEPT ![c] = Returned(arg[c], heap[arg[c]])]
    /\ pc' = [pc EXCEPT ![c] = "done"]
    /\ UNCHANGED <<heap, heap0, arg, local, writes>>
    /\ UNCHANGED raceFrame

-----------------------------------------------------------------------------------------------------------------------------------------------------------------------------------------------------------------------------
(* Claims about concurrent validate_bbox calls (checked under SpecRace)     *)

\* What one call alone, on the caller's heap, leaves in object r.
AloneResult(r) == validate_bbox(heap0, Ref(r)).heap[r]

\* C10: two calls running at once on the same non-empty mapping, their key
\* checks and key writes interleaved in any order, leave the mapping, and
\* return, what a single call alone does; a call never writes to an object
\* other than its own argument, so calls on different objects each leave
\* what a call alone does and no object that is nobody's argument changes.
C10_RaceIsBenign ==
    /\ \A c \in Callers :
          (pc[c] = "done" /\ DOMAIN heap0[arg[c]] # {}) =>
              /\ rets[c].ref = arg[c]
              /\ rets[c].seen = AloneResult(arg[c])
              /\ heap[arg[c]] = AloneResult(arg[c])
    /\ \A c \in Callers : writes[c] \subseteq {arg[c]}
    /\ \A r \in 1..Len(heap0) : (\A c \in Callers : arg[c] # r) => heap[r] = heap0[r]

\* Both callers were given object 1, which lacked both keys; both stored
\* into it and both have returned.
C10_Witness ==
    /\ arg[1] = 1 /\ arg[2] = 1
    /\ DOMAIN heap0[1] = {"label"}
    /\ pc[1] = "done" /\ pc[2] = "done"
    /\ writes[1] = {1} /\ writes[2] = {1}

-----
(* Specifications: one per function under test                              *)

InitOfConf == InitConf /\ CostIdle /\ CheckIdle /\ ExtractIdle /\ BboxIdle /\ HeapIdle /\ RaceIdle
NextConf == CallCalculateConfidence \/ PermuteSteps
SpecConf == InitOfConf /\ [][NextConf]_vars

InitOfCost == InitCost /\ ConfIdle /\ CheckIdle /\ ExtractIdle /\ BboxIdle /\ HeapIdle /\ RaceIdle
NextCost == CallCleanCost
SpecCost == InitOfCost /\ [][NextCost]_vars

InitOfCheck == InitCheck /\ ConfIdle /\ CostIdle /\ ExtractIdle /\ BboxIdle /\ HeapIdle /\ RaceIdle
NextCheck == CallSanityCheckHp
SpecCheck == InitOfCheck /\ [][NextCheck]_vars

InitOfExtract == InitExtract /\ ConfIdle /\ CostIdle /\ CheckIdle /\ BboxIdle /\ HeapIdle /\ RaceIdle
NextExtract == CallSmartExtractHp
SpecExtract == InitOfExtract /\ [][NextExtract]_vars

InitOfBbox == InitBbox /\ ConfIdle /\ CostIdle /\ CheckIdle /\ ExtractIdle /\ RaceIdle
NextBbox == CallValidateBbox
SpecBbox == InitOfBbox /\ [][NextBbox]_vars

InitOfRace == InitRace /\ ConfIdle /\ CostIdle /\ CheckIdle /\ ExtractIdle /\ BboxIdle
NextRace == \E c \in Callers :
                L84(c) \/ L89(c) \/ L90(c) \/ L91(c) \/ L92Load(c) \/ L92Store(c) \/ L93(c)
SpecRace == InitOfRace /\ [][NextRace]_vars

====
